---- MODULE Spec2Model ----
(***************************************************************************)
(* Counting quadruples 1 <= a < b < c < d <= M with a+b+c+d = N:           *)
(*   dp.py        count_quadruples           (0/1 subset-sum table)        *)
(*   pair_sum.py  count_quadruples_pair_sum  (pair-sum histogram sweep)    *)
(*   main.py      solve_with_formula / solve_with_dp / solve_with_pair_sum *)
(*                and the comparison loop under __main__                   *)
(*                                                                         *)
(* SpecCount runs the two counters, loop iteration by loop iteration, on   *)
(* one request (target_sum, upper_bound), count_quadruples first and       *)
(* count_quadruples_pair_sum second, as main.py calls them.  Spec runs the *)
(* comparison loop of main.py; lst, which main.py fixes to 18 values up to *)
(* 1024, ranges over the short lists of n-values in 1..MaxValue.           *)
(***************************************************************************)
EXTENDS Integers, Sequences, FiniteSets

VARIABLES
    \* ---- one counting request (dp.py, pair_sum.py) ----
    target_sum,     \* argument target_sum of both counters
    upper_bound,    \* argument max_value (dp.py) / upper_bound (pair_sum.py)
    cpc,            \* position in the run of the two counters ("raised": ended by IndexError)
    count_table,    \* dp.py: count_table, <<>> while not created
    candidate,      \* dp.py: loop variable candidate
    dp_ret,         \* dp.py: value returned by count_quadruples
    pair_counts,    \* pair_sum.py: pair_counts, <<>> while not created
    total,          \* pair_sum.py: total
    second,         \* pair_sum.py: loop variable second (b)
    fourth,         \* pair_sum.py: loop variable fourth (d)
    first,          \* pair_sum.py: loop variable first (a)
    pair_ret,       \* pair_sum.py: value returned by count_quadruples_pair_sum
    reg_log,        \* history: <<second, third, fourth>> of every increment of pair_counts
    \* ---- the comparison loop (main.py) ----
    lst,            \* main.py: lst
    idx,            \* position of the for loop in lst
    hpc,            \* position inside the loop body
    formula_result, \* main.py: formula_result
    formula_rem,    \* history: remainders of the divisions solve_with_formula performed
    dp_result,      \* main.py: dp_result
    pair_result,    \* main.py: pair_result
    mismatches,     \* main.py: mismatches
    calls           \* history: <<engine, n>> of every engine invocation

countVars == <<target_sum, upper_bound, cpc, count_table, candidate, dp_ret,
               pair_counts, total, second, fourth, first, pair_ret, reg_log>>
harnessVars == <<lst, idx, hpc, formula_result, formula_rem, dp_result,
                 pair_result, mismatches, calls>>
vars == <<countVars, harnessVars>>

(***************************************************************************)
(* Bounds of the model.                                                    *)
(***************************************************************************)
MaxBound == 9       \* largest upper_bound of a counting request
NegSpan == 2        \* requests reach down to -NegSpan in both arguments
MaxValue == 16      \* largest n-value in lst
MaxLen == 2         \* longest lst

BoundRange == (0 - NegSpan) .. MaxBound
TargetRange == (0 - NegSpan) .. (4 * MaxBound - 4)

(***************************************************************************)
(* dp.py                                                                   *)
(***************************************************************************)
\* faulty variant: the upper limit tested without the - 6
OutOfRangeLoose(N, M) == N < 10 \/ N > 4 * M

\* faulty variant: the lower limit tested with <=
OutOfRangeStrict(N, M) == N <= 10 \/ N > 4 * M - 6

\* dp.py:19  the request lies outside [10, 4*max_value - 6]
OutOfRange(N, M) == N < 10 \/ N > 4 * M - 6

(***************************************************************************)
(* Python lists are functions on 0..len-1.  An index i of a list of length *)
(* L is legal when -L <= i < L, a negative one counting from the end; any  *)
(* other raises IndexError, which ends the call.                           *)
(***************************************************************************)
IndexError == <<"IndexError">>

ListLen(list) == Cardinality(DOMAIN list)

HasItem(list, i) == (0 - ListLen(list)) <= i /\ i < ListLen(list)

Position(list, i) == IF i < 0 THEN i + ListLen(list) ELSE i

\* faulty variant: count_table[0][0] = 1 is left out
NewCountTableAllZero(N) == [k \in 0..4 |-> [s \in 0..N |-> 0]]

\* dp.py:22-23  five rows of target_sum + 1 zeros, then count_table[0][0] = 1
NewCountTable(N) ==
    [k \in 0..4 |-> [s \in 0..N |-> IF k = 0 /\ s = 0 THEN 1 ELSE 0]]

\* faulty variant: the source cell is taken 2 * candidate to the left
UpdateCellDoubled(table, k, s, v) ==
    IF ~(HasItem(table, k) /\ HasItem(table, k - 1)) THEN IndexError
    ELSE LET row == table[Position(table, k)]
             below == table[Position(table, k - 1)]
         IN  IF ~(HasItem(row, s) /\ HasItem(below, s - 2 * v)) THEN IndexError
             ELSE [table EXCEPT ![Position(table, k)][Position(row, s)] =
                                    @ + below[Position(below, s - 2 * v)]]

\* dp.py:41-43  count_table[k][s] += count_table[k - 1][s - v]
UpdateCell(table, k, s, v) ==
    IF ~(HasItem(table, k) /\ HasItem(table, k - 1)) THEN IndexError
    ELSE LET row == table[Position(table, k)]
             below == table[Position(table, k - 1)]
         IN  IF ~(HasItem(row, s) /\ HasItem(below, s - v)) THEN IndexError
             ELSE [table EXCEPT ![Position(table, k)][Position(row, s)] =
                                    @ + below[Position(below, s - v)]]

\* dp.py:40  for current_sum in range(target_sum, candidate - 1, -1)
RECURSIVE SumLoop(_, _, _, _)
SumLoop(table, k, s, v) ==
    IF table = IndexError \/ s < v THEN table
    ELSE SumLoop(UpdateCell(table, k, s, v), k, s - 1, v)

\* faulty variant: numbers_selected ascends, range(1, 5)
RECURSIVE SelectedAscending(_, _, _, _)
SelectedAscending(table, k, v, N) ==
    IF table = IndexError \/ k < 1 THEN table
    ELSE SumLoop(SelectedAscending(table, k - 1, v, N), k, N, v)

\* dp.py:39  for numbers_selected in range(4, 0, -1)
RECURSIVE SelectedLoop(_, _, _, _)
SelectedLoop(table, k, v, N) ==
    IF table = IndexError \/ k < 1 THEN table
    ELSE SelectedLoop(SumLoop(table, k, N, v), k - 1, v, N)

\* dp.py:38-43  the body of one iteration of the loop over candidate
ProcessCandidate(table, v, N) == SelectedLoop(table, 4, v, N)

\* dp.py:38  for candidate in range(1, max_value + 1)
RECURSIVE CandidateLoop(_, _, _, _)
CandidateLoop(table, v, M, N) ==
    IF table = IndexError \/ v > M THEN table
    ELSE CandidateLoop(ProcessCandidate(table, v, N), v + 1, M, N)

\* dp.py:45  return count_table[4][target_sum]
ReturnRaises(table, N) ==
    \/ table = IndexError
    \/ ~HasItem(table, 4)
    \/ ~HasItem(table[Position(table, 4)], N)

FinalCount(table, N) ==
    IF ReturnRaises(table, N) THEN IndexError
    ELSE LET row == table[Position(table, 4)] IN row[Position(row, N)]

\* dp.py:10-45
count_quadruples(N, M) ==
    IF OutOfRange(N, M) THEN 0
    ELSE FinalCount(CandidateLoop(NewCountTable(N), 1, M, N), N)

(***************************************************************************)
(* pair_sum.py                                                             *)
(***************************************************************************)
\* pair_sum.py:33  [0] * (2 * upper_bound + 1)
NewPairCounts(M) == [s \in 0..(2 * M) |-> 0]

\* pair_sum.py:52  pair_counts[third + fourth] += 1
RegisterPair(counts, c, d) ==
    IF ~HasItem(counts, c + d) THEN IndexError
    ELSE [counts EXCEPT ![Position(counts, c + d)] = @ + 1]

\* pair_sum.py:51  for fourth in range(third + 1, upper_bound + 1)
RECURSIVE RegisterLoop(_, _, _, _)
RegisterLoop(counts, c, d, M) ==
    IF counts = IndexError \/ d > M THEN counts
    ELSE RegisterLoop(RegisterPair(counts, c, d), c, d + 1, M)

\* faulty variant: the lookup forgets to take second off the target
QueryPairKeepsSecond(sum, counts, N, b, a, M) ==
    LET target == N - a
    IN  IF 0 <= target /\ target <= 2 * M
        THEN sum + counts[Position(counts, target)]
        ELSE sum

\* pair_sum.py:56-58  target = sum_without_first - first; the guarded lookup
QueryPair(sum, counts, N, b, a, M) ==
    LET target == (N - b) - a
    IN  IF 0 <= target /\ target <= 2 * M
        THEN sum + counts[Position(counts, target)]
        ELSE sum

\* pair_sum.py:55  for first in range(1, second)
RECURSIVE QueryLoop(_, _, _, _, _, _)
QueryLoop(sum, counts, N, b, a, M) ==
    IF a >= b THEN sum
    ELSE QueryLoop(QueryPair(sum, counts, N, b, a, M), counts, N, b, a + 1, M)

\* pair_sum.py:49  for second in range(upper_bound - 2, 1, -1)
RECURSIVE SweepLoop(_, _, _, _, _)
SweepLoop(sum, counts, b, N, M) ==
    IF b <= 1 THEN sum
    ELSE LET registered == RegisterLoop(counts, b + 1, (b + 1) + 1, M)
         IN  IF registered = IndexError THEN IndexError
             ELSE SweepLoop(QueryLoop(sum, registered, N, b, 1, M),
                            registered, b - 1, N, M)

\* pair_sum.py:21-60
count_quadruples_pair_sum(N, M) ==
    IF OutOfRange(N, M) THEN 0
    ELSE SweepLoop(0, NewPairCounts(M), M - 2, N, M)

(***************************************************************************)
(* main.py.  The @timed wrapper returns (result, elapsed); the elapsed     *)
(* time is not part of the model.                                          *)
(***************************************************************************)
\* main.py:2,38  math.comb(n, k)
RECURSIVE comb(_, _)
comb(n, k) ==
    IF k = 0 THEN 1 ELSE (comb(n, k - 1) * (n - k + 1)) \div k

\* main.py:38  the division comb(n, 4) * 4 // n, as <<dividend, divisor>>
BaseDivision(n) == <<comb(n, 4) * 4, n>>

\* main.py:38  base
base(n) == BaseDivision(n)[1] \div BaseDivision(n)[2]

\* faulty variant: the adjustments of the cases n % 4 = 2 and n % 4 = 0 are exchanged
CaseDivisionExchanged(n) ==
    CASE n % 4 \in {1, 3} -> <<base(n), 4>>
      [] n % 4 = 2 -> <<base(n) * 2 + n - 6, 8>>
      [] n % 4 = 0 -> <<base(n) * 2 + n - 2, 8>>
      [] OTHER -> <<0, 1>>

\* main.py:40-48  the division of the matching case, as <<dividend, divisor>>
CaseDivision(n) ==
    CASE n % 4 \in {1, 3} -> <<base(n), 4>>
      [] n % 4 = 2 -> <<base(n) * 2 + n - 2, 8>>
      [] n % 4 = 0 -> <<base(n) * 2 + n - 6, 8>>
      [] OTHER -> <<0, 1>>

\* main.py:32-48
solve_with_formula(n) ==
    IF n < 5 THEN 0 ELSE CaseDivision(n)[1] \div CaseDivision(n)[2]

\* main.py:38-46  the remainders of the divisions one call performs
FormulaRemainders(n) ==
    IF n < 5 THEN <<>>
    ELSE <<BaseDivision(n)[1] % BaseDivision(n)[2],
           CaseDivision(n)[1] % CaseDivision(n)[2]>>

\* faulty variant: the multipliers stop at 2
solve_with_dp_two(n) ==
    count_quadruples(n * 1, n) + count_quadruples(n * 2, n)

\* main.py:60-71  sum(count_with_upper_bound(n * multiplier, n) for multiplier in (1, 2, 3))
solve_with_dp(n) ==
    count_quadruples(n * 1, n) + count_quadruples(n * 2, n) + count_quadruples(n * 3, n)

\* main.py:83-94  sum(count_quadruples_pair_sum(n * multiplier, n) for multiplier in (1, 2, 3))
solve_with_pair_sum(n) ==
    count_quadruples_pair_sum(n * 1, n) + count_quadruples_pair_sum(n * 2, n)
        + count_quadruples_pair_sum(n * 3, n)

\* The engines are pure: the results of the three engines on the n-values
\* lst may hold, each computed once.
FormulaOf == [n \in 1..MaxValue |-> solve_with_formula(n)]
DpOf == [n \in 1..MaxValue |-> solve_with_dp(n)]
PairSumOf == [n \in 1..MaxValue |-> solve_with_pair_sum(n)]

\* faulty variant: the test is inverted
DifferInverted(f, d, p) == Cardinality({f, d, p}) = 1

\* main.py:143  len({formula_result, dp_result, pair_result}) != 1
Differ(f, d, p) == Cardinality({f, d, p}) # 1

(***************************************************************************)
(* One counting request, run through count_quadruples and then through     *)
(* count_quadruples_pair_sum.                                              *)
(***************************************************************************)
None == 0 - 1

HarnessIdle ==
    /\ lst = <<>>
    /\ idx = 1
    /\ hpc = "end"
    /\ formula_result = None
    /\ formula_rem = <<>>
    /\ dp_result = None
    /\ pair_result = None
    /\ mismatches = <<>>
    /\ calls = <<>>

CountIdle ==
    /\ target_sum = 0
    /\ upper_bound = 0
    /\ cpc = "done"
    /\ count_table = <<>>
    /\ candidate = 0
    /\ dp_ret = None
    /\ pair_counts = <<>>
    /\ total = 0
    /\ second = 0
    /\ fourth = 0
    /\ first = 0
    /\ pair_ret = None
    /\ reg_log = <<>>

InitCount ==
    /\ target_sum \in TargetRange
    /\ upper_bound \in BoundRange
    /\ cpc = "dp_call"
    /\ count_table = <<>>
    /\ candidate = 0
    /\ dp_ret = None
    /\ pair_counts = <<>>
    /\ total = 0
    /\ second = 0
    /\ fourth = 0
    /\ first = 0
    /\ pair_ret = None
    /\ reg_log = <<>>
    /\ HarnessIdle

\* dp.py:19-20  early return of 0
DpShortCircuit ==
    /\ cpc = "dp_call"
    /\ OutOfRange(target_sum, upper_bound)
    /\ dp_ret' = 0
    /\ cpc' = "pair_call"
    /\ UNCHANGED <<target_sum, upper_bound, count_table, candidate, pair_counts,
                   total, second, fourth, first, pair_ret, reg_log, harnessVars>>

\* dp.py:22-23  the table is created
DpAllocate ==
    /\ cpc = "dp_call"
    /\ ~OutOfRange(target_sum, upper_bound)
    /\ count_table' = NewCountTable(target_sum)
    /\ candidate' = 1
    /\ cpc' = "dp_loop"
    /\ UNCHANGED <<target_sum, upper_bound, dp_ret, pair_counts,
                   total, second, fourth, first, pair_ret, reg_log, harnessVars>>

\* dp.py:38-43  one iteration of the loop over candidate
DpCandidate ==
    /\ cpc = "dp_loop"
    /\ candidate <= upper_bound
    /\ count_table' = ProcessCandidate(count_table, candidate, target_sum)
    /\ candidate' = candidate + 1
    /\ cpc' = IF count_table' = IndexError THEN "raised" ELSE "dp_loop"
    /\ UNCHANGED <<target_sum, upper_bound, dp_ret, pair_counts,
                   total, second, fourth, first, pair_ret, reg_log, harnessVars>>

\* dp.py:45  return count_table[4][target_sum]
DpReturn ==
    /\ cpc = "dp_loop"
    /\ candidate > upper_bound
    /\ dp_ret' = FinalCount(count_table, target_sum)
    /\ cpc' = IF ReturnRaises(count_table, target_sum) THEN "raised" ELSE "pair_call"
    /\ UNCHANGED <<target_sum, upper_bound, count_table, candidate, pair_counts,
                   total, second, fourth, first, pair_ret, reg_log, harnessVars>>

\* pair_sum.py:30-31  early return of 0
PairShortCircuit ==
    /\ cpc = "pair_call"
    /\ OutOfRange(target_sum, upper_bound)
    /\ pair_ret' = 0
    /\ cpc' = "done"
    /\ UNCHANGED <<target_sum, upper_bound, count_table, candidate, dp_ret,
                   pair_counts, total, second, fourth, first, reg_log, harnessVars>>

\* pair_sum.py:33-37  the histogram is created, the sweep starts at upper_bound - 2
PairAllocate ==
    /\ cpc = "pair_call"
    /\ ~OutOfRange(target_sum, upper_bound)
    /\ pair_counts' = NewPairCounts(upper_bound)
    /\ total' = 0
    /\ second' = upper_bound - 2
    /\ cpc' = "sweep"
    /\ UNCHANGED <<target_sum, upper_bound, count_table, candidate, dp_ret,
                   fourth, first, pair_ret, reg_log, harnessVars>>

\* faulty variant: the loop over fourth starts at third, range(third, upper_bound + 1)
PairSweepFromThird ==
    /\ cpc = "sweep"
    /\ second > 1
    /\ fourth' = second + 1
    /\ cpc' = "register"
    /\ UNCHANGED <<target_sum, upper_bound, count_table, candidate, dp_ret,
                   pair_counts, total, second, first, pair_ret, reg_log, harnessVars>>

\* pair_sum.py:49-51  the sweep takes its next second; third = second + 1
PairSweep ==
    /\ cpc = "sweep"
    /\ second > 1
    /\ fourth' = (second + 1) + 1
    /\ cpc' = "register"
    /\ UNCHANGED <<target_sum, upper_bound, count_table, candidate, dp_ret,
                   pair_counts, total, second, first, pair_ret, reg_log, harnessVars>>

\* pair_sum.py:51-52  one iteration of the loop over fourth
PairRegister ==
    /\ cpc = "register"
    /\ fourth <= upper_bound
    /\ pair_counts' = RegisterPair(pair_counts, second + 1, fourth)
    /\ reg_log' = Append(reg_log, <<second, second + 1, fourth>>)
    /\ fourth' = fourth + 1
    /\ cpc' = IF pair_counts' = IndexError THEN "raised" ELSE "register"
    /\ UNCHANGED <<target_sum, upper_bound, count_table, candidate, dp_ret,
                   total, second, first, pair_ret, harnessVars>>

\* pair_sum.py:54-55  the loop over fourth ends, the loop over first starts
PairRegistered ==
    /\ cpc = "register"
    /\ fourth > upper_bound
    /\ first' = 1
    /\ cpc' = "query"
    /\ UNCHANGED <<target_sum, upper_bound, count_table, candidate, dp_ret,
                   pair_counts, total, second, fourth, pair_ret, reg_log, harnessVars>>

\* pair_sum.py:55-58  one iteration of the loop over first
PairQuery ==
    /\ cpc = "query"
    /\ first < second
    /\ total' = QueryPair(total, pair_counts, target_sum, second, first, upper_bound)
    /\ first' = first + 1
    /\ UNCHANGED <<target_sum, upper_bound, cpc, count_table, candidate, dp_ret,
                   pair_counts, second, fourth, pair_ret, reg_log, harnessVars>>

\* pair_sum.py:49,55  the loop over first ends, second steps down
PairQueried ==
    /\ cpc = "query"
    /\ first >= second
    /\ second' = second - 1
    /\ cpc' = "sweep"
    /\ UNCHANGED <<target_sum, upper_bound, count_table, candidate, dp_ret,
                   pair_counts, total, fourth, first, pair_ret, reg_log, harnessVars>>

\* pair_sum.py:60  return total
PairReturn ==
    /\ cpc = "sweep"
    /\ second <= 1
    /\ pair_ret' = total
    /\ cpc' = "done"
    /\ UNCHANGED <<target_sum, upper_bound, count_table, candidate, dp_ret,
                   pair_counts, total, second, fourth, first, reg_log, harnessVars>>

NextCount ==
    \/ DpShortCircuit
    \/ DpAllocate
    \/ DpCandidate
    \/ DpReturn
    \/ PairShortCircuit
    \/ PairAllocate
    \/ PairSweep
    \/ PairRegister
    \/ PairRegistered
    \/ PairQuery
    \/ PairQueried
    \/ PairReturn

SpecCount == InitCount /\ [][NextCount]_vars

(***************************************************************************)
(* The comparison loop of main.py (lines 98-155) over lst.                 *)
(***************************************************************************)
RECURSIVE SeqsUpTo(_, _)
SeqsUpTo(S, len) ==
    IF len = 0 THEN {<<>>}
    ELSE LET shorter == SeqsUpTo(S, len - 1)
         IN  shorter \cup {Append(q, x) : q \in shorter, x \in S}

InitHarness ==
    /\ lst \in SeqsUpTo(1..MaxValue, MaxLen)
    /\ idx = 1
    /\ hpc = "formula"
    /\ formula_result = None
    /\ formula_rem = <<>>
    /\ dp_result = None
    /\ pair_result = None
    /\ mismatches = <<>>
    /\ calls = <<>>
    /\ CountIdle

\* main.py:118-119  for n in lst: formula_result, formula_time = solve_with_formula(n)
CallFormula ==
    /\ hpc = "formula"
    /\ idx <= Len(lst)
    /\ formula_result' = FormulaOf[lst[idx]]
    /\ formula_rem' = FormulaRemainders(lst[idx])
    /\ calls' = Append(calls, <<"formula", lst[idx]>>)
    /\ hpc' = "dp"
    /\ UNCHANGED <<lst, idx, dp_result, pair_result, mismatches, countVars>>

\* main.py:120-125  dp_result, dp_time = solve_with_dp(n, ...)
CallDp ==
    /\ hpc = "dp"
    /\ dp_result' = DpOf[lst[idx]]
    /\ calls' = Append(calls, <<"dp", lst[idx]>>)
    /\ hpc' = "pair"
    /\ UNCHANGED <<lst, idx, formula_result, formula_rem, pair_result, mismatches,
                   countVars>>

\* main.py:126-131  pair_result, pair_time = solve_with_pair_sum(n, ...)
CallPairSum ==
    /\ hpc = "pair"
    /\ pair_result' = PairSumOf[lst[idx]]
    /\ calls' = Append(calls, <<"pair", lst[idx]>>)
    /\ hpc' = "check"
    /\ UNCHANGED <<lst, idx, formula_result, formula_rem, dp_result, mismatches,
                   countVars>>

\* main.py:133-146  the row is added; a disagreeing n is appended to mismatches
Compare ==
    /\ hpc = "check"
    /\ mismatches' = IF Differ(formula_result, dp_result, pair_result)
                     THEN Append(mismatches, lst[idx])
                     ELSE mismatches
    /\ idx' = idx + 1
    /\ hpc' = "formula"
    /\ UNCHANGED <<lst, formula_result, formula_rem, dp_result, pair_result, calls,
                   countVars>>

\* main.py:148-155  the loop is over: the warning and the table are printed
Finish ==
    /\ hpc = "formula"
    /\ idx > Len(lst)
    /\ hpc' = "end"
    /\ UNCHANGED <<lst, idx, formula_result, formula_rem, dp_result, pair_result,
                   mismatches, calls, countVars>>

Init == InitHarness

Next ==
    \/ CallFormula
    \/ CallDp
    \/ CallPairSum
    \/ Compare
    \/ Finish

Spec == Init /\ [][Next]_vars

(***************************************************************************)
(* Reference counts, by enumeration.                                       *)
(***************************************************************************)
RECURSIVE SetSum(_)
SetSum(S) == IF S = {} THEN 0 ELSE LET x == CHOOSE y \in S : TRUE IN x + SetSum(S \ {x})

\* the number of 4-element subsets of {1..M} that sum to N
SubsetCount(N, M) ==
    Cardinality({S \in SUBSET (1..M) : Cardinality(S) = 4 /\ SetSum(S) = N})

\* the number of quadruples 1 <= a < b < c < d <= M with a + b + c + d = N
QuadrupleCount(N, M) ==
    Cardinality({q \in (1..M) \X (1..M) \X (1..M) \X (1..M) :
                    /\ q[1] < q[2] /\ q[2] < q[3] /\ q[3] < q[4]
                    /\ q[1] + q[2] + q[3] + q[4] = N})

\* count_quadruples on every request of the model, each computed once
CurveOf == [M \in BoundRange |-> [N \in TargetRange |-> count_quadruples(N, M)]]

\* count_quadruples on the mirror image 4M + 4 - N of every request
MirrorOf ==
    [M \in BoundRange |-> [N \in TargetRange |-> count_quadruples(4 * M + 4 - N, M)]]

DpReturned == cpc \in {"pair_call", "sweep", "register", "query", "done"}
PairReturned == cpc = "done"

(***************************************************************************)
(* Claims about the counters (SpecCount).                                  *)
(***************************************************************************)
\* C2: whatever the integers target_sum and max_value, count_quadruples returns
\* the number of 4-element subsets of {1..max_value} that sum to target_sum.
C2_DpCountsSubsets ==
    /\ cpc # "raised"
    /\ DpReturned => dp_ret = SubsetCount(target_sum, upper_bound)

C2_Witness ==
    /\ DpReturned
    /\ target_sum = 16
    /\ upper_bound = 7
    /\ dp_ret = 5

\* C3: whatever the integers target_sum and upper_bound, count_quadruples_pair_sum
\* returns the number of quadruples 1 <= a < b < c < d <= upper_bound with
\* a + b + c + d = target_sum, each counted once.
C3_PairSumCountsQuadruples ==
    /\ cpc # "raised"
    /\ PairReturned => pair_ret = QuadrupleCount(target_sum, upper_bound)

C3_Witness ==
    /\ PairReturned
    /\ target_sum = 16
    /\ upper_bound = 7
    /\ pair_ret = 5

\* C4: when target_sum < 10 or target_sum > 4 * upper_bound - 6 (zero and
\* negative arguments included) both counters return 0, without an error, and
\* neither the table nor the histogram is ever created.
C4_RangeShortCircuit ==
    (target_sum < 10 \/ target_sum > 4 * upper_bound - 6) =>
        /\ cpc # "raised"
        /\ DOMAIN count_table = {}
        /\ DOMAIN pair_counts = {}
        /\ DpReturned => dp_ret = 0
        /\ PairReturned => pair_ret = 0

C4_Witness ==
    /\ PairReturned
    /\ target_sum = 19
    /\ upper_bound = 6
    /\ dp_ret = 0
    /\ pair_ret = 0
    /\ DOMAIN count_table = {}
    /\ DOMAIN pair_counts = {}

\* C7 as stated: for target_sum 11 and upper bound 5 both counters return 2.
C7_ScenarioReturnsTwo ==
    (PairReturned /\ target_sum = 11 /\ upper_bound = 5) =>
        (dp_ret = 2 /\ pair_ret = 2)

\* C7 as amended: for target_sum 11 and upper bound 5 both counters return 1
\* (the only quadruple is 1, 2, 3, 5).
C7_ScenarioReturnsOne ==
    (PairReturned /\ target_sum = 11 /\ upper_bound = 5) =>
        (dp_ret = 1 /\ pair_ret = 1)

C7_Witness ==
    /\ PairReturned
    /\ target_sum = 11
    /\ upper_bound = 5
    /\ QuadrupleCount(11, 5) = 1

\* count_quadruples(N, M): the value this run returned for its own request,
\* the value of the function for every other one.
CountAt(M, N) ==
    IF M = upper_bound /\ N = target_sum THEN dp_ret ELSE CurveOf[M][N]

\* The curve N |-> count_quadruples(N, upper_bound).
Curve(N) == CountAt(upper_bound, N)

\* C8: for the fixed upper bound, N |-> count_quadruples(N, M) is unimodal:
\* there is a peak up to which it never falls and from which it never rises.
C8_Unimodal ==
    DpReturned =>
        \E peak \in TargetRange :
            /\ \A N \in TargetRange : N < peak => Curve(N) <= Curve(N + 1)
            /\ \A N \in TargetRange :
                   (N >= peak /\ N + 1 \in TargetRange) => Curve(N) >= Curve(N + 1)

C8_Witness ==
    /\ DpReturned
    /\ upper_bound = 7
    /\ target_sum = 16
    /\ dp_ret = 5
    /\ Curve(15) = 4
    /\ Curve(17) = 4
    /\ Curve(10) = 1
    /\ Curve(22) = 1

\* C9 as stated: count_quadruples(N, M) = count_quadruples(4M + 4 - N, M) fails
\* for some upper bound M and target N.
C9_NoReflectionSymmetry ==
    DpReturned =>
        \E M \in BoundRange, N \in TargetRange : CountAt(M, N) # MirrorOf[M][N]

\* C9 as amended: count_quadruples(N, M) = count_quadruples(4M + 4 - N, M) for
\* every upper bound M and target N.
C9_ReflectionSymmetry ==
    DpReturned => dp_ret = MirrorOf[upper_bound][target_sum]

C9_Witness ==
    /\ DpReturned
    /\ upper_bound = 6
    /\ target_sum = 12
    /\ dp_ret = 2
    /\ 4 * upper_bound + 4 - target_sum = 16
    /\ CurveOf[6][16] = 2

\* The pairs (c, d) with b < c < d <= M.
PairsAbove(b, M) == {p \in (1..M) \X (1..M) : b < p[1] /\ p[1] < p[2]}

HistogramExact ==
    cpc = "query" =>
        \A s \in 0..(2 * upper_bound) :
            pair_counts[s] =
                Cardinality({p \in PairsAbove(second, upper_bound) : p[1] + p[2] = s})

RegisteredOnce ==
    /\ \A i \in DOMAIN reg_log :
           /\ reg_log[i][1] = reg_log[i][2] - 1
           /\ \A j \in DOMAIN reg_log :
                  (reg_log[j][2] = reg_log[i][2] /\ reg_log[j][3] = reg_log[i][3]) => j = i
    /\ cpc \in {"query", "sweep"} =>
           \A p \in PairsAbove(IF cpc = "query" THEN second ELSE second + 1, upper_bound) :
               \E i \in DOMAIN reg_log : reg_log[i][2] = p[1] /\ reg_log[i][3] = p[2]

QueriesOnlyRead == cpc = "query" => pair_counts' = pair_counts

\* C10: once the pairs of the current b are registered, pair_counts[s] is, for
\* every s in 0..2M, the number of pairs (c, d) with b < c < d <= M and c + d = s;
\* each such pair was registered once, when b = c - 1; and the loop over a leaves
\* the histogram as it is.
C10_PairHistogram ==
    [](HistogramExact /\ RegisteredOnce) /\ [][QueriesOnlyRead]_vars

C10_Witness ==
    /\ cpc = "query"
    /\ upper_bound = 7
    /\ second = 3
    /\ first = 2
    /\ pair_counts[11] = 2
    /\ Len(reg_log) = 6

(***************************************************************************)
(* Claims about the comparison loop (Spec).                                *)
(***************************************************************************)
\* C1: for every n >= 5 the formula result equals the sum of count_quadruples(n*k, n)
\* over k = 1, 2, 3, which equals the sum of count_quadruples_pair_sum(n*k, n).
C1_Agreement ==
    (hpc = "check" /\ lst[idx] >= 5) =>
        /\ formula_result = dp_result
        /\ dp_result = pair_result

C1_Witness ==
    /\ hpc = "check"
    /\ lst[idx] = 12
    /\ formula_result = 42
    /\ dp_result = 42
    /\ pair_result = 42

\* C5: for n >= 5 every division of solve_with_formula leaves remainder 0:
\* comb(n,4)*4 by n; base by 4 when n mod 4 is 1 or 3; 2*base + n - 2 by 8 when
\* n mod 4 = 2; 2*base + n - 6 by 8 when n mod 4 = 0.
C5_ExactDivisions ==
    (hpc \in {"dp", "pair", "check"} /\ lst[idx] >= 5) =>
        LET n == lst[idx]
            b == (comb(n, 4) * 4) \div n
        IN  /\ formula_rem = <<0, 0>>
            /\ (comb(n, 4) * 4) % n = 0
            /\ n % 4 \in {1, 3} => b % 4 = 0 /\ formula_result = b \div 4
            /\ n % 4 = 2 => (2 * b + n - 2) % 8 = 0 /\ formula_result = (2 * b + n - 2) \div 8
            /\ n % 4 = 0 => (2 * b + n - 6) % 8 = 0 /\ formula_result = (2 * b + n - 6) \div 8

C5_Witness ==
    /\ hpc = "dp"
    /\ lst[idx] = 10
    /\ formula_rem = <<0, 0>>
    /\ formula_result = 22

Engines == <<"formula", "dp", "pair">>

\* C6: the n-values are processed in input order, each through formula, DP and
\* pair-sum in that order; mismatches is the subsequence, in order, of the
\* processed n-values whose three results are not all equal.
C6_HarnessOrder ==
    /\ \A i \in DOMAIN calls :
           calls[i] = <<Engines[((i - 1) % 3) + 1], lst[((i - 1) \div 3) + 1]>>
    /\ Len(calls) = 3 * (idx - 1) + (CASE hpc = "dp" -> 1 [] hpc = "pair" -> 2
                                       [] hpc = "check" -> 3 [] OTHER -> 0)
    /\ LET Disagree(n) == ~(FormulaOf[n] = DpOf[n] /\ DpOf[n] = PairSumOf[n])
       IN  mismatches = SelectSeq(SubSeq(lst, 1, idx - 1), Disagree)
    /\ hpc = "end" => idx = Len(lst) + 1

C6_Witness ==
    /\ hpc = "end"
    /\ lst = <<9, 4>>
    /\ Len(calls) = 6
    /\ mismatches = <<>>

====
